---- MODULE Spec2Model ----
(***************************************************************************)
(* Model of kinope/tempering.py: RESTFactory, which rewrites an OpenMM     *)
(* system into a REST2-enabled system, and its lambda protocol.            *)
(*                                                                         *)
(* Three specifications share the variables:                               *)
(*   Spec           RESTFactory.__init__ run step by step on a bounded     *)
(*                  family of input systems, solute regions and flags;     *)
(*   SpecClassifier get_identifier applied to every bounded index tuple;   *)
(*   SpecProtocol   get_protocol and the evaluation of its expressions on  *)
(*                  a lambda grid.                                         *)
(***************************************************************************)
EXTENDS Integers, Sequences, FiniteSets, TLC

VARIABLES
    pc,                 \* position in __init__ / get_protocol
    err,                \* exception that ended the run: [type, args]
    og_system,          \* the system argument (read-only input)
    solute_region,      \* self._solute_region
    solvent_region,     \* self._solvent_region
    use_dispersion_correction,  \* self._use_dispersion_correction
    og_system_forces,   \* self._og_system_forces (dict: class name -> force)
    nonbonded_method,   \* self._nonbonded_method
    out_system,         \* self._out_system
    out_system_forces,  \* self._out_system_forces (dict: class name -> force)
    global_params,      \* self._global_params
    particles,          \* argument of the last get_identifier call
    identifier,         \* its return value
    T_min, T_max,       \* arguments of get_protocol
    alchemical_dict,    \* return value of get_protocol
    lambda,             \* grid index of the lambda the expressions are evaluated at
    scales              \* the evaluated expressions at that lambda

vars == <<pc, err, og_system, solute_region, solvent_region,
          use_dispersion_correction, og_system_forces, nonbonded_method,
          out_system, out_system_forces, global_params,
          particles, identifier, T_min, T_max, alchemical_dict, lambda, scales>>

factoryVars == <<og_system, solute_region, solvent_region,
                 use_dispersion_correction, og_system_forces, nonbonded_method,
                 out_system, out_system_forces, global_params>>
classifierVars == <<particles, identifier>>
protocolVars == <<T_min, T_max, alchemical_dict, lambda, scales>>

-----------------------------------------------------------------------------
(* Bounds *)

\* number of particles of the input system
NumParticles == 4
\* longest index tuple handed to get_identifier in SpecClassifier
MaxArity == 4
\* temperatures are drawn from 1..MaxT
MaxT == 4
\* lambda = i / (2*HalfSteps), i in 0..2*HalfSteps
HalfSteps == 2
\* values tried for the global parameters solute_scale and inter_scale
MaxScale == 3

-----------------------------------------------------------------------------
(* Python helpers *)

None == [none |-> TRUE]
NoError == [type |-> "none", args |-> {}]

EmptyDict == [x \in {} |-> None]
\* d[k] = v
Put(d, k, v) == [x \in (DOMAIN d) \cup {k} |-> IF x = k THEN v ELSE d[x]]

Range(s) == {s[i] : i \in DOMAIN s}

\* all(x in region for x in particles)
AllIn(ps, region) == \A i \in DOMAIN ps : ps[i] \in region

-----------------------------------------------------------------------------
(* The input systems *)

Indices == 0 .. NumParticles - 1

KnownForces == {"HarmonicBondForce", "HarmonicAngleForce", "PeriodicTorsionForce",
                "NonbondedForce", "MonteCarloBarostat"}

Term(ps, params) == [p |-> ps, params |-> params]

\* a force object of the input system; the nonbonded fields are None elsewhere
Force(kind, terms) ==
    [kind |-> kind, terms |-> terms, exceptions |-> <<>>,
     method |-> None, useSwitch |-> None, switchDist |-> None,
     cutoff |-> None, rfDielectric |-> None, pme |-> None, ewaldTol |-> None,
     useDispersionCorrection |-> None]

\* a NonbondedForce: terms[i+1] = (charge, sigma, epsilon) of particle i
Nonbonded(parts, excs, method, sw, disp) ==
    [kind |-> "NonbondedForce", terms |-> parts, exceptions |-> excs,
     method |-> method, useSwitch |-> sw, switchDist |-> 8,
     cutoff |-> 9, rfDielectric |-> 78, pme |-> <<3, 16, 16, 16>>, ewaldTol |-> 5,
     useDispersionCorrection |-> disp]

\* Every input system holds a sub-list, in this order, of these force objects.
ForcePool ==
    << Force("HarmonicBondForce",
             << Term(<<0, 1>>, <<1, 2>>), Term(<<1, 2>>, <<2, 3>>),
                Term(<<2, 3>>, <<3, 1>>) >>),
       Force("HarmonicBondForce",
             << Term(<<0, 2>>, <<2, 2>>) >>),
       Force("HarmonicAngleForce",
             << Term(<<0, 1, 2>>, <<1, 2>>), Term(<<1, 2, 3>>, <<2, 1>>) >>),
       Force("PeriodicTorsionForce",
             << Term(<<0, 1, 2, 3>>, <<1, 0, 2>>), Term(<<3, 2, 1, 0>>, <<2, 1, 3>>) >>),
       Nonbonded([i \in 1 .. NumParticles |-> <<i, i + 1, i + 2>>],
                 << Term(<<0, 1>>, <<2, 3, 1>>), Term(<<1, 2>>, <<1, 2, 2>>),
                    Term(<<2, 3>>, <<3, 1, 1>>) >>,
                 "PME", TRUE, TRUE),
       Nonbonded([i \in 1 .. NumParticles |-> <<2 * i, i, 1>>],
                 << Term(<<0, 3>>, <<1, 1, 2>>) >>,
                 "NoCutoff", FALSE, FALSE),
       Force("MonteCarloBarostat", <<>>),
       Force("CustomExternalForce", <<>>),
       Force("CMMotionRemover", <<>>) >>

\* the elements of pool selected by the index set sel, in pool order
RECURSIVE SubList(_, _, _)
SubList(pool, sel, i) ==
    IF i > Len(pool) THEN <<>>
    ELSE (IF i \in sel THEN <<pool[i]>> ELSE <<>>) \o SubList(pool, sel, i + 1)

System(forces) ==
    [numParticles |-> NumParticles,
     masses       |-> [i \in 1 .. NumParticles |-> 10 + i],
     constraints  |-> << <<0, 1, 1>> >>,
     boxVectors   |-> <<3, 3, 3>>,
     forces       |-> forces]

InputSystems == {System(SubList(ForcePool, sel, 1)) : sel \in SUBSET (1 .. Len(ForcePool))}

\* solute regions, index = particle_count (out of range) included
InputRegions == SUBSET (0 .. NumParticles)

-----------------------------------------------------------------------------
(* Partition classifier *)

SoluteOnly == 0
SolventOnly == 1
Inter == 2

IntArg(i) == [type |-> "int", val |-> i]
ListArg(ps) == [type |-> "list", val |-> ps]

\* get_identifier with all(...) replaced by any(...) in the solvent test
get_identifier_any(solute, solvent, parts) ==
    IF parts.type = "int"
    THEN (IF parts.val \in solute THEN 0 ELSE 1)
    ELSE IF \E i \in DOMAIN parts.val : parts.val[i] \in solvent THEN 1
         ELSE IF AllIn(parts.val, solute) THEN 0
         ELSE 2

get_identifier(solute, solvent, parts) ==
    IF parts.type = "int"
    THEN (IF parts.val \in solute THEN 0 ELSE 1)
    ELSE IF AllIn(parts.val, solvent) THEN 1
         ELSE IF AllIn(parts.val, solute) THEN 0
         ELSE 2

\* self._solvent_region of __init__
SolventRegion(n, solute) == (0 .. n - 1) \ solute


-----------------------------------------------------------------------------
(* RESTFactory.__init__ *)

\* {type(force).__name__ : force for force in system.getForces()}: a later
\* force of a class replaces an earlier one of the same class
ForceDict(forces) ==
    [name \in {forces[i].kind : i \in DOMAIN forces} |->
        forces[CHOOSE i \in DOMAIN forces :
                  /\ forces[i].kind = name
                  /\ \A j \in DOMAIN forces : forces[j].kind = name => j <= i]]

\* the same dict with the first force of each class kept
ForceDict_first(forces) ==
    [name \in {forces[i].kind : i \in DOMAIN forces} |->
        forces[CHOOSE i \in DOMAIN forces :
                  /\ forces[i].kind = name
                  /\ \A j \in DOMAIN forces : forces[j].kind = name => j >= i]]

NoSystem ==
    [exists |-> FALSE, masses |-> <<>>, forces |-> <<>>, constraints |-> <<>>,
     boxVectors |-> None]

Raise(type, args) ==
    /\ err' = [type |-> type, args |-> args]
    /\ pc' = "raised"

\* line 61 with the upper end of the index range included
RegionIsValid_inclusive(solute, n) == solute \subseteq 0 .. n

\* line 61: set(solute_region).issubset(set(range(self._num_particles)))
RegionIsValid(solute, n) == solute \subseteq 0 .. n - 1

\* lines 49-62: attributes, the solute-region assertion, the NonbondedForce lookup
Construct ==
    /\ pc = "init"
    /\ og_system_forces' = ForceDict(og_system.forces)
    /\ out_system_forces' = EmptyDict
    /\ solvent_region' = SolventRegion(og_system.numParticles, solute_region)
    /\ global_params' = <<>>
    /\ IF ~RegionIsValid(solute_region, og_system.numParticles)
       THEN /\ Raise("AssertionError", {})
            /\ UNCHANGED nonbonded_method
       ELSE IF "NonbondedForce" \notin DOMAIN og_system_forces'
       THEN /\ Raise("KeyError", {"NonbondedForce"})
            /\ UNCHANGED nonbonded_method
       ELSE /\ nonbonded_method' = og_system_forces'["NonbondedForce"].method
            /\ pc' = "new_system"
            /\ UNCHANGED err
    /\ UNCHANGED <<og_system, solute_region, use_dispersion_correction, out_system>>
    /\ UNCHANGED <<classifierVars, protocolVars>>

\* lines 63-67: openmm.System() and one addParticle per particle
NewSystem ==
    /\ pc = "new_system"
    /\ out_system' = [exists |-> TRUE,
                      masses |-> [i \in 1 .. og_system.numParticles |-> og_system.masses[i]],
                      forces |-> <<>>, constraints |-> <<>>, boxVectors |-> None]
    /\ pc' = "barostat"
    /\ UNCHANGED <<err, og_system, solute_region, solvent_region,
                   use_dispersion_correction, og_system_forces, nonbonded_method,
                   out_system_forces, global_params>>
    /\ UNCHANGED <<classifierVars, protocolVars>>

\* self._out_system.addForce(f); self._out_system_forces[name] = f
AddForce(name, f) ==
    /\ out_system' = [out_system EXCEPT !.forces = Append(@, name)]
    /\ out_system_forces' = Put(out_system_forces, name, f)

\* lines 69-75
CopyBarostat ==
    /\ pc = "barostat"
    /\ IF "MonteCarloBarostat" \in DOMAIN og_system_forces
       THEN AddForce("MonteCarloBarostat", og_system_forces["MonteCarloBarostat"])
       ELSE UNCHANGED <<out_system, out_system_forces>>
    /\ pc' = "box_vectors"
    /\ UNCHANGED <<err, og_system, solute_region, solvent_region,
                   use_dispersion_correction, og_system_forces, nonbonded_method,
                   global_params>>
    /\ UNCHANGED <<classifierVars, protocolVars>>

\* lines 77-80
CopyBoxVectors ==
    /\ pc = "box_vectors"
    /\ out_system' = [out_system EXCEPT !.boxVectors = og_system.boxVectors]
    /\ pc' = "check_forces"
    /\ UNCHANGED <<err, og_system, solute_region, solvent_region,
                   use_dispersion_correction, og_system_forces, nonbonded_method,
                   out_system_forces, global_params>>
    /\ UNCHANGED <<classifierVars, protocolVars>>

\* lines 83-89
CheckUnknownForces ==
    /\ pc = "check_forces"
    /\ LET unknown_forces == (DOMAIN og_system_forces) \ KnownForces
       IN  IF Cardinality(unknown_forces) > 0
           THEN Raise("ValueError", unknown_forces)
           ELSE pc' = "constraints" /\ UNCHANGED err
    /\ UNCHANGED <<factoryVars, classifierVars, protocolVars>>

\* lines 105-108
HandleConstraints ==
    /\ pc = "constraints"
    /\ out_system' = [out_system EXCEPT !.constraints =
                         [i \in 1 .. Len(og_system.constraints) |-> og_system.constraints[i]]]
    /\ pc' = "bond_terms"
    /\ UNCHANGED <<err, og_system, solute_region, solvent_region,
                   use_dispersion_correction, og_system_forces, nonbonded_method,
                   out_system_forces, global_params>>
    /\ UNCHANGED <<classifierVars, protocolVars>>


-----------------------------------------------------------------------------
(* Term rewriter: bonded kinds *)

\* delta(x) of the engine's expression language
delta(x) == IF x = 0 THEN 1 ELSE 0

\* last_line of scaling_expression with the test on nb inverted
last_line_swapped(nb, ident) ==
    IF nb
    THEN [is_solute |-> delta(ident), is_solvent |-> delta(1 - ident),
          is_inter |-> delta(2 - ident)]
    ELSE [is_solute |-> delta(ident), is_solvent |-> delta(2 - ident),
          is_inter |-> delta(1 - ident)]

\* last_line of scaling_expression: the three indicator terms; with nb, ident
\* stands for identifier1 + identifier2
last_line(nb, ident) ==
    IF ~nb
    THEN [is_solute |-> delta(ident), is_solvent |-> delta(1 - ident),
          is_inter |-> delta(2 - ident)]
    ELSE [is_solute |-> delta(ident), is_solvent |-> delta(2 - ident),
          is_inter |-> delta(1 - ident)]

\* scaling_expression with the solvent_scale definition left at 0
scaling_expression_nosolvent(nb, ident, g) ==
    LET l == last_line(nb, ident)
        solvent_scale == 0
    IN  g.solute_scale * l.is_solute + solvent_scale * l.is_solvent
        + g.inter_scale * l.is_inter

\* scale_factor = solute_scale*_is_solute + solvent_scale*_is_solvent
\*                + inter_scale*_is_inter; solvent_scale = 1.
scaling_expression(nb, ident, g) ==
    LET l == last_line(nb, ident)
        solvent_scale == 1
    IN  g.solute_scale * l.is_solute + solvent_scale * l.is_solvent
        + g.inter_scale * l.is_inter

\* a Custom{Bond,Angle,Torsion}Force as the _add_*_force_terms methods build it
CustomForce(kind, perParams) ==
    [kind |-> kind, nb |-> FALSE, perParams |-> perParams,
     globals |-> [q \in {"solute_scale", "inter_scale"} |-> 1],
     terms |-> <<>>]

\* lines 110-126, 140-156, 158-175
AddForceTerms(at, next, kind, perParams) ==
    /\ pc = at
    /\ AddForce(kind, CustomForce(kind, perParams))
    /\ global_params' = global_params \o <<"solute_scale", "inter_scale">>
    /\ pc' = next
    /\ UNCHANGED <<err, og_system, solute_region, solvent_region,
                   use_dispersion_correction, og_system_forces, nonbonded_method>>
    /\ UNCHANGED <<classifierVars, protocolVars>>

\* one rewritten bonded term: the original parameters and the identifier
RewriteTerm(t) ==
    Term(t.p, t.params \o <<get_identifier(solute_region, solvent_region, ListArg(t.p))>>)

\* the loop of _add_bonds / _add_angles / _add_torsions, skipped without an
\* error when the original has no force of the kind
AddTerms_skip(at, next, ogKind, outKind) ==
    /\ pc = at
    /\ IF ogKind \notin DOMAIN og_system_forces
       THEN UNCHANGED out_system_forces
       ELSE LET og_force == og_system_forces[ogKind]
            IN  out_system_forces' =
                  [out_system_forces EXCEPT ![outKind].terms =
                     @ \o [i \in 1 .. Len(og_force.terms) |-> RewriteTerm(og_force.terms[i])]]
    /\ pc' = next
    /\ UNCHANGED <<err, og_system, solute_region, solvent_region,
                   use_dispersion_correction, og_system_forces, nonbonded_method,
                   out_system, global_params>>
    /\ UNCHANGED <<classifierVars, protocolVars>>

\* lines 226-248: the loop of _add_bonds / _add_angles / _add_torsions
AddTerms(at, next, ogKind, outKind) ==
    /\ pc = at
    /\ IF ogKind \notin DOMAIN og_system_forces
       THEN /\ Raise("KeyError", {ogKind})
            /\ UNCHANGED out_system_forces
       ELSE /\ LET og_force == og_system_forces[ogKind]
               IN  out_system_forces' =
                     [out_system_forces EXCEPT ![outKind].terms =
                        @ \o [i \in 1 .. Len(og_force.terms) |-> RewriteTerm(og_force.terms[i])]]
            /\ pc' = next
            /\ UNCHANGED err
    /\ UNCHANGED <<og_system, solute_region, solvent_region,
                   use_dispersion_correction, og_system_forces, nonbonded_method,
                   out_system, global_params>>
    /\ UNCHANGED <<classifierVars, protocolVars>>

_add_bond_force_terms ==
    AddForceTerms("bond_terms", "bonds", "CustomBondForce", <<"length", "k", "identifier">>)

_add_bonds == AddTerms("bonds", "angle_terms", "HarmonicBondForce", "CustomBondForce")

_add_angle_force_terms ==
    AddForceTerms("angle_terms", "angles", "CustomAngleForce", <<"theta0", "k", "identifier">>)

_add_angles == AddTerms("angles", "torsion_terms", "HarmonicAngleForce", "CustomAngleForce")

_add_torsion_force_terms ==
    AddForceTerms("torsion_terms", "torsions", "CustomTorsionForce",
                  <<"periodicity", "phase", "k", "identifier">>)

_add_torsions ==
    AddTerms("torsions", "nonbonded_terms", "PeriodicTorsionForce", "CustomTorsionForce")


-----------------------------------------------------------------------------
(* Term rewriter: nonbonded *)

Offset(param, idx, off) == [param |-> param, idx |-> idx, off |-> off]

\* openmm.NonbondedForce() as constructed, before any setter is called
NewNonbondedForce ==
    [kind |-> "NonbondedForce", terms |-> <<>>, exceptions |-> <<>>,
     particleOffsets |-> <<>>, exceptionOffsets |-> <<>>,
     globals |-> EmptyDict,
     method |-> "NoCutoff", useSwitch |-> FALSE, switchDist |-> "default",
     cutoff |-> "default", rfDielectric |-> "default", pme |-> "default",
     ewaldTol |-> "default", useDispersionCorrection |-> TRUE]

\* lines 201-204 with `and` replaced by `or`
DispersionCorrection_or(og_flag, caller_flag) == og_flag \/ caller_flag

\* lines 201-204
DispersionCorrection(og_flag, caller_flag) ==
    IF og_flag /\ caller_flag THEN TRUE ELSE FALSE

\* lines 177-209
_add_nonbonded_force_terms ==
    /\ pc = "nonbonded_terms"
    /\ LET og == og_system_forces["NonbondedForce"]
           f0 == [NewNonbondedForce EXCEPT !.useSwitch = og.useSwitch]
           f1 == IF og.useSwitch THEN [f0 EXCEPT !.switchDist = og.switchDist] ELSE f0
           f2 == IF nonbonded_method # "NoCutoff"
                 THEN [f1 EXCEPT !.rfDielectric = og.rfDielectric, !.cutoff = og.cutoff]
                 ELSE f1
           f3 == IF nonbonded_method \in {"PME", "Ewald"}
                 THEN [f2 EXCEPT !.pme = og.pme, !.ewaldTol = og.ewaldTol]
                 ELSE f2
           f4 == [f3 EXCEPT !.method = nonbonded_method]
           f5 == [f4 EXCEPT !.useDispersionCorrection =
                     DispersionCorrection(og.useDispersionCorrection,
                                          use_dispersion_correction)]
           f6 == [f5 EXCEPT !.globals =
                     [q \in {"electrostatic_scale", "steric_scale"} |-> 0]]
       IN  AddForce("NonbondedForce", f6)
    /\ global_params' = global_params \o <<"electrostatic_scale", "steric_scale">>
    /\ pc' = "nonbondeds"
    /\ UNCHANGED <<err, og_system, solute_region, solvent_region,
                   use_dispersion_correction, og_system_forces, nonbonded_method>>
    /\ UNCHANGED <<classifierVars, protocolVars>>

\* lines 260-263 with the steric offset carrying sigma as well
ParticleOffsetsOf_sigma(particle_idx, q, sigma, epsilon, ident) ==
    IF ident = 1 THEN <<>>
    ELSE << Offset("electrostatic_scale", particle_idx, <<q, 0 * sigma, epsilon * 0>>),
            Offset("steric_scale", particle_idx, <<q * 0, sigma, epsilon>>) >>

\* lines 257-263: the offsets one particle receives
ParticleOffsetsOf(particle_idx, q, sigma, epsilon, ident) ==
    IF ident = 1 THEN <<>>
    ELSE << Offset("electrostatic_scale", particle_idx, <<q, 0 * sigma, epsilon * 0>>),
            Offset("steric_scale", particle_idx, <<q * 0, 0 * sigma, epsilon>>) >>

\* lines 271-277 with the roles of the two scale names exchanged
ExceptionOffsetsOf_swapped(exc_idx, chargeProd, sigma, epsilon, ident) ==
    IF ident = 1 THEN <<>>
    ELSE IF ident = 0
    THEN << Offset("electrostatic_scale", exc_idx, <<chargeProd, 0 * sigma, epsilon>>) >>
    ELSE IF ident = 2
    THEN << Offset("steric_scale", exc_idx, <<chargeProd, 0 * sigma, epsilon>>) >>
    ELSE <<>>

\* lines 271-277: the offset one exception receives
ExceptionOffsetsOf(exc_idx, chargeProd, sigma, epsilon, ident) ==
    IF ident = 1 THEN <<>>
    ELSE IF ident = 0
    THEN << Offset("steric_scale", exc_idx, <<chargeProd, 0 * sigma, epsilon>>) >>
    ELSE IF ident = 2
    THEN << Offset("electrostatic_scale", exc_idx, <<chargeProd, 0 * sigma, epsilon>>) >>
    ELSE <<>>

\* lines 253-263: offsets of particles i .. n-1, in the order they are added
RECURSIVE ParticleOffsets(_, _, _)
ParticleOffsets(og_nb_force, i, n) ==
    IF i >= n THEN <<>>
    ELSE LET prm == og_nb_force.terms[i + 1]
             ident == get_identifier(solute_region, solvent_region, IntArg(i))
         IN  ParticleOffsetsOf(i, prm[1], prm[2], prm[3], ident)
             \o ParticleOffsets(og_nb_force, i + 1, n)

\* lines 267-277: offsets of exceptions i .. n-1, in the order they are added;
\* exc_idx is the index addException returned, first the count of exceptions
\* already in the output force
RECURSIVE ExceptionOffsets(_, _, _, _)
ExceptionOffsets(og_nb_force, base, i, n) ==
    IF i >= n THEN <<>>
    ELSE LET e == og_nb_force.exceptions[i + 1]
             ident == get_identifier(solute_region, solvent_region, ListArg(e.p))
         IN  ExceptionOffsetsOf(base + i, e.params[1], e.params[2], e.params[3], ident)
             \o ExceptionOffsets(og_nb_force, base, i + 1, n)

\* lines 250-277
_add_nonbondeds ==
    /\ pc = "nonbondeds"
    /\ LET og_nb_force == og_system_forces["NonbondedForce"]
           out == out_system_forces["NonbondedForce"]
           n == og_system.numParticles
           ne == Len(og_nb_force.exceptions)
       IN  out_system_forces' =
             [out_system_forces EXCEPT !["NonbondedForce"] =
                [out EXCEPT
                   !.terms = @ \o [i \in 1 .. n |-> og_nb_force.terms[i]],
                   !.particleOffsets = @ \o ParticleOffsets(og_nb_force, 0, n),
                   !.exceptions = @ \o [i \in 1 .. ne |-> og_nb_force.exceptions[i]],
                   !.exceptionOffsets =
                       @ \o ExceptionOffsets(og_nb_force, Len(out.exceptions), 0, ne)]]
    /\ pc' = "done"
    /\ UNCHANGED <<err, og_system, solute_region, solvent_region,
                   use_dispersion_correction, og_system_forces, nonbonded_method,
                   out_system, global_params>>
    /\ UNCHANGED <<classifierVars, protocolVars>>


-----------------------------------------------------------------------------
(* Protocol generator *)

\* exact numbers: an integer n, or a symbolic term for a non-integer value
Num(n) == [int |-> TRUE, n |-> n, sym |-> <<>>]
Sym(x) == [int |-> FALSE, n |-> 0, sym |-> x]

\* a + b * (e^(j/HalfSteps) - 1)/(e - 1), normalised: the fraction is 0 at j = 0,
\* 1 at j = HalfSteps and irrational at every other grid point
Temp(a, b, j) ==
    IF b = 0 \/ j = 0 THEN [a |-> a, b |-> 0, j |-> 0]
    ELSE IF j = HalfSteps THEN [a |-> a + b, b |-> 0, j |-> 0]
    ELSE [a |-> a, b |-> b, j |-> j]

\* "{T_min} + ({T_max} - {T_min})*(exp(2*{exponand}) - 1) / (exp(1) - 1)"
base_temperature_expression(Tmin, Tmax, exponand) ==
    [T_min |-> Tmin, T_max |-> Tmax, exponand |-> exponand]

\* temperature_expression with the two branches of select exchanged
temperature_expression_swapped(Tmin, Tmax) ==
    [cond |-> "step(lambda - 0.5)",
     y |-> base_temperature_expression(Tmin, Tmax, "(lambda)"),
     z |-> base_temperature_expression(Tmin, Tmax, "(1.0 - lambda)")]

\* select(step(lambda - 0.5), base(exponand_2), base(exponand_1))
temperature_expression(Tmin, Tmax) ==
    [cond |-> "step(lambda - 0.5)",
     y |-> base_temperature_expression(Tmin, Tmax, "(1.0 - lambda)"),
     z |-> base_temperature_expression(Tmin, Tmax, "(lambda)")]

\* lines 279-294
get_protocol(Tmin, Tmax) ==
    LET te == temperature_expression(Tmin, Tmax)
    IN  [solute_scale        |-> [num |-> Tmin, den |-> te, sqrt |-> FALSE, minus |-> 0],
         inter_scale         |-> [num |-> Tmin, den |-> te, sqrt |-> TRUE,  minus |-> 0],
         steric_scale        |-> [num |-> Tmin, den |-> te, sqrt |-> FALSE, minus |-> 1],
         electrostatic_scale |-> [num |-> Tmin, den |-> te, sqrt |-> TRUE,  minus |-> 1]]

\* step(x): 0 if x < 0, 1 otherwise; x = lambda - 0.5 at grid index i
step(i) == IF i - HalfSteps < 0 THEN 0 ELSE 1

\* select(x, y, z): z if x = 0, y otherwise
select(x, y, z) == IF x = 0 THEN z ELSE y

\* the value of a base temperature expression at grid index i
EvalBase(b, i) ==
    LET j == IF b.exponand = "(lambda)" THEN i ELSE 2 * HalfSteps - i
    IN  Temp(b.T_min, b.T_max - b.T_min, j)

EvalTemperature(te, i) == select(step(i), EvalBase(te.y, i), EvalBase(te.z, i))

Div(n, t) ==
    IF t.b # 0 THEN Sym(<<"div", n, t>>)
    ELSE IF t.a = 0 THEN Sym(<<"nan">>)
    ELSE IF t.a > 0 /\ n % t.a = 0 THEN Num(n \div t.a)
    ELSE Sym(<<"div", n, t>>)

Sqrt(v) ==
    IF v.int /\ v.n >= 0 /\ \E k \in 0 .. v.n : k * k = v.n
    THEN Num(CHOOSE k \in 0 .. v.n : k * k = v.n)
    ELSE Sym(<<"sqrt", v>>)

Minus(v, m) ==
    IF m = 0 THEN v
    ELSE IF v.int THEN Num(v.n - m)
    ELSE Sym(<<"minus", v, m>>)

\* the value of one entry of the dict returned by get_protocol at grid index i
EvalScale(x, i) ==
    LET ratio == Div(x.num, EvalTemperature(x.den, i))
    IN  Minus(IF x.sqrt THEN Sqrt(ratio) ELSE ratio, x.minus)

ScaleNames == {"solute_scale", "inter_scale", "steric_scale", "electrostatic_scale"}

GetProtocol ==
    /\ pc = "call_protocol"
    /\ alchemical_dict' = get_protocol(T_min, T_max)
    /\ pc' = "protocol"
    /\ UNCHANGED <<err, factoryVars, classifierVars, T_min, T_max, lambda, scales>>

\* the integrator evaluates the returned expressions at one lambda of the grid
Evaluate ==
    /\ pc \in {"protocol", "evaluated"}
    /\ \E i \in 0 .. 2 * HalfSteps :
          /\ lambda' = i
          /\ scales' = [q \in ScaleNames |-> EvalScale(alchemical_dict[q], i)]
    /\ pc' = "evaluated"
    /\ UNCHANGED <<err, factoryVars, classifierVars, T_min, T_max, alchemical_dict>>

-----------------------------------------------------------------------------
(* Classifier on its own *)

\* nonempty index tuples of length <= n over Indices
Tuples(n) == UNION {[1 .. k -> Indices] : k \in 1 .. n}

Classify ==
    /\ pc = "classify"
    /\ \E parts \in {IntArg(i) : i \in Indices} \cup {ListArg(t) : t \in Tuples(MaxArity)} :
          /\ particles' = parts
          /\ identifier' = get_identifier(solute_region, solvent_region, parts)
    /\ pc' = "classified"
    /\ UNCHANGED <<err, factoryVars, protocolVars>>

-----------------------------------------------------------------------------
(* Specifications *)

IdleFactory ==
    /\ og_system = System(<<>>)
    /\ solute_region = {}
    /\ solvent_region = {}
    /\ use_dispersion_correction = FALSE
    /\ og_system_forces = EmptyDict
    /\ nonbonded_method = None
    /\ out_system = NoSystem
    /\ out_system_forces = EmptyDict
    /\ global_params = <<>>

IdleClassifier ==
    /\ particles = None
    /\ identifier = None

IdleProtocol ==
    /\ T_min = 0
    /\ T_max = 0
    /\ alchemical_dict = None
    /\ lambda = 0
    /\ scales = None

\* RESTFactory(system, solute_region, use_dispersion_correction) is called
Init ==
    /\ pc = "init"
    /\ err = NoError
    /\ og_system \in InputSystems
    /\ solute_region \in InputRegions
    /\ use_dispersion_correction \in BOOLEAN
    /\ solvent_region = {}
    /\ og_system_forces = EmptyDict
    /\ nonbonded_method = None
    /\ out_system = NoSystem
    /\ out_system_forces = EmptyDict
    /\ global_params = <<>>
    /\ IdleClassifier
    /\ IdleProtocol

Next ==
    \/ Construct
    \/ NewSystem
    \/ CopyBarostat
    \/ CopyBoxVectors
    \/ CheckUnknownForces
    \/ HandleConstraints
    \/ _add_bond_force_terms
    \/ _add_bonds
    \/ _add_angle_force_terms
    \/ _add_angles
    \/ _add_torsion_force_terms
    \/ _add_torsions
    \/ _add_nonbonded_force_terms
    \/ _add_nonbondeds

Spec == Init /\ [][Next]_vars

\* a factory with solute region S, a subset of the particle indices, classifies
InitClassifier ==
    /\ pc = "classify"
    /\ err = NoError
    /\ og_system = System(<<>>)
    /\ solute_region \in SUBSET Indices
    /\ solvent_region = SolventRegion(og_system.numParticles, solute_region)
    /\ use_dispersion_correction = FALSE
    /\ og_system_forces = EmptyDict
    /\ nonbonded_method = None
    /\ out_system = NoSystem
    /\ out_system_forces = EmptyDict
    /\ global_params = <<>>
    /\ IdleClassifier
    /\ IdleProtocol

NextClassifier == Classify

SpecClassifier == InitClassifier /\ [][NextClassifier]_vars

\* get_protocol(T_min, T_max) is called with temperatures in 1 .. MaxT
InitProtocol ==
    /\ pc = "call_protocol"
    /\ err = NoError
    /\ IdleFactory
    /\ IdleClassifier
    /\ T_min \in 1 .. MaxT
    /\ T_max \in 1 .. MaxT
    /\ alchemical_dict = None
    /\ lambda = 0
    /\ scales = None

NextProtocol == GetProtocol \/ Evaluate

SpecProtocol == InitProtocol /\ [][NextProtocol]_vars


-----------------------------------------------------------------------------
(* C1: the classifier *)

HasSolute(ps) == \E i \in DOMAIN ps : ps[i] \in solute_region
HasSolvent(ps) == \E i \in DOMAIN ps : ps[i] \notin solute_region

\* C1: for every solute set S within the particle indices and every nonempty
\* index tuple, get_identifier returns one category: a single particle is
\* SoluteOnly iff its index is in S, else SolventOnly; a multi-particle term is
\* SolventOnly if no participant is in S, SoluteOnly if all are, and Inter
\* exactly when it has both a solute and a solvent participant.
C1_Classifier ==
    pc = "classified" =>
        IF particles.type = "int"
        THEN identifier = (IF particles.val \in solute_region THEN SoluteOnly ELSE SolventOnly)
        ELSE /\ identifier \in {SoluteOnly, SolventOnly, Inter}
             /\ ~HasSolute(particles.val) => identifier = SolventOnly
             /\ ~HasSolvent(particles.val) => identifier = SoluteOnly
             /\ identifier = Inter <=>
                   (HasSolute(particles.val) /\ HasSolvent(particles.val))

C1_Witness ==
    /\ pc = "classified"
    /\ particles.type = "list"
    /\ Len(particles.val) >= 3
    /\ HasSolute(particles.val)
    /\ HasSolvent(particles.val)
    /\ identifier = Inter


-----------------------------------------------------------------------------
(* Evaluation of the rewritten terms by the engine *)

\* the value of every global parameter as the forces declare it
ReferencePoint ==
    [q \in ScaleNames |-> IF q \in {"solute_scale", "inter_scale"} THEN 1 ELSE 0]

\* a rewritten bonded term at globals g: the per-term parameters without the
\* identifier, with k (the last of them) replaced by K = k*scale_factor
EffectiveBonded(force, t, g) ==
    LET n == Len(t.params)
        ident == t.params[n]
        K == t.params[n - 1] * scaling_expression(force.nb, ident, g)
    IN  Term(t.p, [i \in 1 .. n - 1 |-> IF i = n - 1 THEN K ELSE t.params[i]])

EffectiveBondedTerms(force, g) ==
    [i \in 1 .. Len(force.terms) |-> EffectiveBonded(force, force.terms[i], g)]

\* base + sum over the offsets of index idx of g[param] * offset
RECURSIVE WithOffsets(_, _, _, _)
WithOffsets(base, offsets, idx, g) ==
    IF offsets = <<>> THEN base
    ELSE LET o == Head(offsets)
             rest == WithOffsets(base, Tail(offsets), idx, g)
         IN  IF o.idx = idx
             THEN [c \in 1 .. 3 |-> rest[c] + g[o.param] * o.off[c]]
             ELSE rest

EffectiveParticles(force, g) ==
    [i \in 1 .. Len(force.terms) |->
        WithOffsets(force.terms[i], force.particleOffsets, i - 1, g)]

EffectiveExceptions(force, g) ==
    [i \in 1 .. Len(force.exceptions) |->
        Term(force.exceptions[i].p,
             WithOffsets(force.exceptions[i].params, force.exceptionOffsets, i - 1, g))]

\* the terms of every force object of one class of the original, in order
RECURSIVE OgTerms(_, _)
OgTerms(forces, kind) ==
    IF forces = <<>> THEN <<>>
    ELSE (IF Head(forces).kind = kind THEN Head(forces).terms ELSE <<>>)
         \o OgTerms(Tail(forces), kind)

RECURSIVE OgExceptions(_)
OgExceptions(forces) ==
    IF forces = <<>> THEN <<>>
    ELSE (IF Head(forces).kind = "NonbondedForce" THEN Head(forces).exceptions ELSE <<>>)
         \o OgExceptions(Tail(forces))

RECURSIVE OgDispersion(_)
OgDispersion(forces) ==
    IF forces = <<>> THEN <<>>
    ELSE (IF Head(forces).kind = "NonbondedForce"
          THEN <<Head(forces).useDispersionCorrection>> ELSE <<>>)
         \o OgDispersion(Tail(forces))

\* what the potential energy of the original is a function of: every term of
\* every force object, and the long-range dispersion correction setting
OgEnergyTerms ==
    [bonds |-> OgTerms(og_system.forces, "HarmonicBondForce"),
     angles |-> OgTerms(og_system.forces, "HarmonicAngleForce"),
     torsions |-> OgTerms(og_system.forces, "PeriodicTorsionForce"),
     particles |-> OgTerms(og_system.forces, "NonbondedForce"),
     exceptions |-> OgExceptions(og_system.forces),
     dispersion |-> OgDispersion(og_system.forces)]

\* the same for the rewritten system at globals g
OutEnergyTerms(g) ==
    [bonds |-> EffectiveBondedTerms(out_system_forces["CustomBondForce"], g),
     angles |-> EffectiveBondedTerms(out_system_forces["CustomAngleForce"], g),
     torsions |-> EffectiveBondedTerms(out_system_forces["CustomTorsionForce"], g),
     particles |-> EffectiveParticles(out_system_forces["NonbondedForce"], g),
     exceptions |-> EffectiveExceptions(out_system_forces["NonbondedForce"], g),
     dispersion |-> <<out_system_forces["NonbondedForce"].useDispersionCorrection>>]

\* the global parameters the output forces declare, with their defaults
DeclaredGlobals ==
    [q \in ScaleNames |->
        IF q \in {"solute_scale", "inter_scale"}
        THEN out_system_forces["CustomBondForce"].globals[q]
        ELSE out_system_forces["NonbondedForce"].globals[q]]

-----------------------------------------------------------------------------
(* C2: identity at the reference point *)

\* C2 as stated: at the default global parameters every rewritten term
\* evaluates with the original parameters and the rewritten system's potential
\* energy equals the original's, i.e. the two systems evaluate the same terms
\* under the same dispersion-correction setting.
C2_EnergyIdentity ==
    pc = "done" =>
        /\ DeclaredGlobals = ReferencePoint
        /\ OutEnergyTerms(ReferencePoint) = OgEnergyTerms

\* C2 amended: at the default global parameters (solute_scale = inter_scale = 1,
\* steric_scale = electrostatic_scale = 0) every rewritten term evaluates with
\* exactly the parameters of the original term it was rewritten from.
C2_TermIdentity ==
    pc = "done" =>
        /\ DeclaredGlobals = ReferencePoint
        /\ EffectiveBondedTerms(out_system_forces["CustomBondForce"], ReferencePoint)
             = og_system_forces["HarmonicBondForce"].terms
        /\ EffectiveBondedTerms(out_system_forces["CustomAngleForce"], ReferencePoint)
             = og_system_forces["HarmonicAngleForce"].terms
        /\ EffectiveBondedTerms(out_system_forces["CustomTorsionForce"], ReferencePoint)
             = og_system_forces["PeriodicTorsionForce"].terms
        /\ EffectiveParticles(out_system_forces["NonbondedForce"], ReferencePoint)
             = og_system_forces["NonbondedForce"].terms
        /\ EffectiveExceptions(out_system_forces["NonbondedForce"], ReferencePoint)
             = og_system_forces["NonbondedForce"].exceptions

\* a finished assembly with solute, solvent and inter terms and offsets in place
C2_Witness ==
    /\ pc = "done"
    /\ solute_region = {0, 1}
    /\ Len(out_system_forces["CustomBondForce"].terms) = 3
    /\ Len(out_system_forces["NonbondedForce"].particleOffsets) = 4
    /\ Len(out_system_forces["NonbondedForce"].exceptionOffsets) = 2

-----------------------------------------------------------------------------
(* C3: round trip of the terms *)

\* the rewritten terms without their identifier
StripIdentifier(terms) ==
    [i \in 1 .. Len(terms) |->
        Term(terms[i].p, SubSeq(terms[i].params, 1, Len(terms[i].params) - 1))]

\* C3: for any accepted input the rewritten system holds, per kind, exactly
\* the original's terms (every force object of the kind counted), the i-th
\* with the same particle indices and physical parameters.
C3_RoundTrip ==
    pc = "done" =>
        /\ StripIdentifier(out_system_forces["CustomBondForce"].terms)
             = OgTerms(og_system.forces, "HarmonicBondForce")
        /\ StripIdentifier(out_system_forces["CustomAngleForce"].terms)
             = OgTerms(og_system.forces, "HarmonicAngleForce")
        /\ StripIdentifier(out_system_forces["CustomTorsionForce"].terms)
             = OgTerms(og_system.forces, "PeriodicTorsionForce")
        /\ out_system_forces["NonbondedForce"].terms
             = OgTerms(og_system.forces, "NonbondedForce")
        /\ out_system_forces["NonbondedForce"].exceptions
             = OgExceptions(og_system.forces)


-----------------------------------------------------------------------------
(* C4: selection of the bonded scale factor *)

BondedKinds == {"CustomBondForce", "CustomAngleForce", "CustomTorsionForce"}

\* values the control loop may give solute_scale and inter_scale
Globals(a, b) == [q \in ScaleNames |-> IF q = "solute_scale" THEN a
                                        ELSE IF q = "inter_scale" THEN b ELSE 0]

\* the category of a term by its participants
Category(ps) ==
    IF ~HasSolute(ps) THEN SolventOnly
    ELSE IF ~HasSolvent(ps) THEN SoluteOnly
    ELSE Inter

\* C4: every rewritten bond, angle and torsion stores the category of its
\* participants as identifier, and for every value of the globals its scale
\* factor is solute_scale if SoluteOnly, 1 if SolventOnly, inter_scale if
\* Inter, exactly one of the three indicator terms being 1 and the others 0.
C4_ScaleSelection ==
    \A kind \in BondedKinds \cap DOMAIN out_system_forces :
      LET force == out_system_forces[kind] IN
      \A i \in DOMAIN force.terms :
        LET t == force.terms[i]
            ident == t.params[Len(t.params)]
            l == last_line(force.nb, ident)
        IN  /\ ident = Category(t.p)
            /\ {l.is_solute, l.is_solvent, l.is_inter} \subseteq {0, 1}
            /\ l.is_solute + l.is_solvent + l.is_inter = 1
            /\ \A a, b \in 0 .. MaxScale :
                  scaling_expression(force.nb, ident, Globals(a, b)) =
                     CASE ident = SoluteOnly -> a
                       [] ident = SolventOnly -> 1
                       [] ident = Inter -> b

\* all three categories occur among the rewritten bonded terms
C4_Witness ==
    /\ pc = "done"
    /\ \A c \in {SoluteOnly, SolventOnly, Inter} :
          \E t \in Range(out_system_forces["CustomBondForce"].terms) : t.params[3] = c
    /\ \E t \in Range(out_system_forces["CustomAngleForce"].terms) : t.params[3] = Inter
    /\ \E t \in Range(out_system_forces["CustomTorsionForce"].terms) : t.params[4] = Inter

-----------------------------------------------------------------------------
(* C5, C6: nonbonded particles, exceptions and their offsets *)

\* the offsets of index idx, in the order they were added
OffsetsAt(offsets, idx) == SelectSeq(offsets, LAMBDA o : o.idx = idx)

\* C5 as stated: every particle keeps (charge, sigma, epsilon); a SoluteOnly
\* particle receives exactly an electrostatic_scale offset (charge, 0, 0) and a
\* steric_scale offset (0, sigma, epsilon); a SolventOnly particle none.
C5_ParticleOffsetsFullSigma ==
    pc = "done" =>
      LET og == og_system_forces["NonbondedForce"]
          out == out_system_forces["NonbondedForce"]
      IN  /\ out.terms = og.terms
          /\ \A i \in 0 .. og_system.numParticles - 1 :
               LET prm == og.terms[i + 1] IN
               OffsetsAt(out.particleOffsets, i) =
                 IF i \in solute_region
                 THEN << Offset("electrostatic_scale", i, <<prm[1], 0, 0>>),
                         Offset("steric_scale", i, <<0, prm[2], prm[3]>>) >>
                 ELSE <<>>

\* C5 amended: as stated, except that the steric_scale offset contributes zero
\* charge, zero sigma and the full epsilon.
C5_ParticleOffsets ==
    pc = "done" =>
      LET og == og_system_forces["NonbondedForce"]
          out == out_system_forces["NonbondedForce"]
      IN  /\ out.terms = og.terms
          /\ \A i \in 0 .. og_system.numParticles - 1 :
               LET prm == og.terms[i + 1] IN
               OffsetsAt(out.particleOffsets, i) =
                 IF i \in solute_region
                 THEN << Offset("electrostatic_scale", i, <<prm[1], 0, 0>>),
                         Offset("steric_scale", i, <<0, 0, prm[3]>>) >>
                 ELSE <<>>

\* a finished assembly with solute and solvent particles
C5_Witness ==
    /\ pc = "done"
    /\ solute_region = {1, 2}
    /\ Len(out_system_forces["NonbondedForce"].particleOffsets) = 4
    /\ Len(out_system_forces["NonbondedForce"].terms) = og_system.numParticles

\* C6 as stated: every exception is copied with its (chargeProd, sigma,
\* epsilon); a SoluteOnly exception gains one steric_scale offset
\* (0, sigma, epsilon), an Inter exception one electrostatic_scale offset
\* (chargeProd, 0, 0), a SolventOnly exception none.
C6_ExceptionOffsetsSplit ==
    pc = "done" =>
      LET og == og_system_forces["NonbondedForce"]
          out == out_system_forces["NonbondedForce"]
      IN  /\ out.exceptions = og.exceptions
          /\ \A i \in 0 .. Len(og.exceptions) - 1 :
               LET e == og.exceptions[i + 1] IN
               OffsetsAt(out.exceptionOffsets, i) =
                 CASE Category(e.p) = SoluteOnly ->
                        << Offset("steric_scale", i, <<0, e.params[2], e.params[3]>>) >>
                   [] Category(e.p) = Inter ->
                        << Offset("electrostatic_scale", i, <<e.params[1], 0, 0>>) >>
                   [] Category(e.p) = SolventOnly -> <<>>

\* C6 amended: every exception is copied with its (chargeProd, sigma,
\* epsilon); a SoluteOnly exception gains one steric_scale offset and an Inter
\* exception one electrostatic_scale offset, each of (chargeProd, 0, epsilon);
\* a SolventOnly exception gains none.
C6_ExceptionOffsets ==
    pc = "done" =>
      LET og == og_system_forces["NonbondedForce"]
          out == out_system_forces["NonbondedForce"]
      IN  /\ out.exceptions = og.exceptions
          /\ \A i \in 0 .. Len(og.exceptions) - 1 :
               LET e == og.exceptions[i + 1] IN
               OffsetsAt(out.exceptionOffsets, i) =
                 CASE Category(e.p) = SoluteOnly ->
                        << Offset("steric_scale", i, <<e.params[1], 0, e.params[3]>>) >>
                   [] Category(e.p) = Inter ->
                        << Offset("electrostatic_scale", i, <<e.params[1], 0, e.params[3]>>) >>
                   [] Category(e.p) = SolventOnly -> <<>>

\* a finished assembly with a SoluteOnly, an Inter and a SolventOnly exception
C6_Witness ==
    /\ pc = "done"
    /\ LET og == og_system_forces["NonbondedForce"]
       IN  \A c \in {SoluteOnly, SolventOnly, Inter} :
              \E e \in Range(og.exceptions) : Category(e.p) = c
    /\ Len(out_system_forces["NonbondedForce"].exceptionOffsets) = 2

-----------------------------------------------------------------------------
(* C7: dispersion correction *)

\* C7: the output nonbonded force uses the dispersion correction iff the
\* original nonbonded force does and use_dispersion_correction is true.
C7_Dispersion ==
    pc \in {"nonbondeds", "done"} =>
        (out_system_forces["NonbondedForce"].useDispersionCorrection
           <=> (og_system_forces["NonbondedForce"].useDispersionCorrection
                  /\ use_dispersion_correction))

\* the original asks for the correction, the caller does not: output off
C7_Witness ==
    /\ pc = "done"
    /\ og_system_forces["NonbondedForce"].useDispersionCorrection
    /\ ~use_dispersion_correction
    /\ ~out_system_forces["NonbondedForce"].useDispersionCorrection

-----------------------------------------------------------------------------
(* C9, C10: rejected inputs *)

\* C9: with a solute region that is not a subset of the particle indices the
\* assembly fails with the region assertion, and the output system is never
\* created.
C9_InvalidRegion ==
    ~(solute_region \subseteq Indices) =>
        /\ out_system = NoSystem
        /\ pc \in {"init", "raised"}
        /\ pc = "raised" => err.type = "AssertionError"

C9_Witness ==
    /\ pc = "raised"
    /\ NumParticles \in solute_region
    /\ err.type = "AssertionError"
    /\ out_system = NoSystem

UnknownKinds == {og_system.forces[i].kind : i \in DOMAIN og_system.forces} \ KnownForces

\* C10: an original system with a force kind outside the five known kinds
\* (and a valid solute region) always ends in the unknown-forces error naming
\* exactly the offending kinds, whatever other forces it holds.
C10_UnknownRejected ==
    (UnknownKinds # {} /\ solute_region \subseteq Indices /\ pc # "init") =>
        /\ pc # "done"
        /\ pc = "raised" => (err.type = "ValueError" /\ err.args = UnknownKinds)

-----------------------------------------------------------------------------
(* C8: boundary values of the protocol *)

\* the branch of the temperature expression select takes at grid index i
SelectedBranch(te, i) == select(step(i), te.y, te.z)

\* C8: for T_min < T_max the temperature expression takes the lambda branch
\* below 0.5 and the (1 - lambda) branch from 0.5 on; at lambda = 0 and at
\* lambda = 1 it gives T_min and the scale expressions evaluate to
\* solute_scale = inter_scale = 1, steric_scale = electrostatic_scale = 0; at
\* lambda = 0.5 it gives T_max.
C8_Boundary ==
    (pc = "evaluated" /\ T_min < T_max) =>
      LET te == alchemical_dict["solute_scale"].den
          T == EvalTemperature(te, lambda)
      IN  /\ SelectedBranch(te, lambda).exponand =
                (IF lambda < HalfSteps THEN "(lambda)" ELSE "(1.0 - lambda)")
          /\ lambda \in {0, 2 * HalfSteps} =>
                /\ T = Temp(T_min, 0, 0)
                /\ scales["solute_scale"] = Num(1)
                /\ scales["inter_scale"] = Num(1)
                /\ scales["steric_scale"] = Num(0)
                /\ scales["electrostatic_scale"] = Num(0)
          /\ lambda = HalfSteps => T = Temp(T_max, 0, 0)

C8_Witness ==
    /\ pc = "evaluated"
    /\ T_min < T_max
    /\ lambda = 2 * HalfSteps
    /\ scales["solute_scale"] = Num(1)
    /\ scales["electrostatic_scale"] = Num(0)


-----------------------------------------------------------------------------
(* C11: temperature range of the protocol *)

\* C11: get_protocol called with T_max <= T_min is rejected before any
\* expression is built: no mapping of scale-factor expressions is returned.
C11_RangeRejected ==
    T_max <= T_min =>
        /\ alchemical_dict = None
        /\ pc \in {"call_protocol", "raised"}
        /\ pc = "raised" => err.type # "none"


-----------------------------------------------------------------------------
(* C12: no partial results on failure *)

\* C12: when the assembly fails on an invalid solute region or an unsupported
\* force kind, the error is raised before the first mutation of the output
\* system: no particle, barostat, box vector, constraint or force has been
\* added to it.
C12_NoPartialResult ==
    (pc = "raised" /\ err.type \in {"AssertionError", "ValueError"}) =>
        /\ out_system.masses = <<>>
        /\ out_system.forces = <<>>
        /\ out_system.constraints = <<>>
        /\ out_system.boxVectors = None
        /\ out_system_forces = EmptyDict


-----------------------------------------------------------------------------
(* C13: the force kinds an assembly needs *)

RequiredKinds == {"HarmonicBondForce", "HarmonicAngleForce", "PeriodicTorsionForce",
                  "NonbondedForce"}

MissingKinds == RequiredKinds \ {og_system.forces[i].kind : i \in DOMAIN og_system.forces}

\* the input passes both documented validations
ValidInput == solute_region \subseteq Indices /\ UnknownKinds = {}

\* C13: an assembly completes only if the original holds a force of each of
\* the four kinds bond, angle, torsion and nonbonded. A valid input lacking one
\* of them aborts with a lookup failure on a missing kind: for a missing
\* NonbondedForce before the output system is created, for a missing bonded
\* kind after the output system holds the particles, the box vectors, the
\* constraints and the first custom force. A valid input holding all four
\* never fails, with or without a barostat, and runs until it is done.
C13_RequiredKinds ==
    /\ pc = "done" => MissingKinds = {}
    /\ (ValidInput /\ MissingKinds # {}) =>
          /\ pc # "done"
          /\ pc = "raised" =>
                /\ err.type = "KeyError"
                /\ Cardinality(err.args) = 1
                /\ err.args \subseteq MissingKinds
                /\ IF "NonbondedForce" \in MissingKinds
                   THEN err.args = {"NonbondedForce"} /\ out_system = NoSystem
                   ELSE /\ out_system.exists
                        /\ out_system.masses = og_system.masses
                        /\ out_system.boxVectors = og_system.boxVectors
                        /\ out_system.constraints = og_system.constraints
                        /\ "CustomBondForce" \in Range(out_system.forces)
    /\ (ValidInput /\ MissingKinds = {}) =>
          /\ pc # "raised"
          /\ pc # "done" => ENABLED Next

\* no HarmonicAngleForce: the lookup fails once the bonds have been rewritten
C13_Witness ==
    /\ pc = "raised"
    /\ ValidInput
    /\ err = [type |-> "KeyError", args |-> {"HarmonicAngleForce"}]
    /\ "MonteCarloBarostat" \notin DOMAIN og_system_forces
    /\ out_system.forces = <<"CustomBondForce", "CustomAngleForce">>
    /\ Len(out_system_forces["CustomBondForce"].terms) = 3


====
